---- MODULE Spec2Model ----
(***************************************************************************)
(* Game-of-Life/script/main.py: the simulation step (create_next_grid),    *)
(* the stability check (grid_changing), the renderer (print_grid) and the  *)
(* generation loop of run_game.                                            *)
(*                                                                         *)
(* A grid is a function [0..h-1 -> [0..w-1 -> 0..1]], indexed grid[row][col]*)
(* as in the source.  The two buffers of run_game are heap objects, so the *)
(* model keeps a heap `buf' of two objects and the two names               *)
(* current_generation / next_generation as references into it.             *)
(***************************************************************************)
EXTENDS Integers, FiniteSets, Sequences, TLC

VARIABLES pc, rows, cols, buf, current_generation, next_generation, gen,
          range_it, live_neighbors, ret, out, loop_state, succ_of_seed

vars == <<pc, rows, cols, buf, current_generation, next_generation, gen,
          range_it, live_neighbors, ret, out, loop_state, succ_of_seed>>

(***************************************************************************)
(* Bounds of the model.                                                    *)
(***************************************************************************)
\* largest grid of the exhaustive check of the functions: rows, columns and
\* cells in all
MaxFnRows == 3
MaxFnCols == 4
MaxFnCells == 12
\* largest dimensions entered at the prompts of run_game
MaxRows == 11
MaxCols == 10

(***************************************************************************)
(* Program constants.                                                      *)
(***************************************************************************)
generations == 5000
LowRows == 10
HighRows == 60
LowCols == 10
HighCols == 118
thresh == 127
maxval == 255

\* k = np.array([[1,1,1],[1,0,1],[1,1,1]])
k == [a \in 0..2 |-> [b \in 0..2 |-> IF a = 1 /\ b = 1 THEN 0 ELSE 1]]

(***************************************************************************)
(* Arrays.                                                                 *)
(***************************************************************************)
Height(g) == Cardinality(DOMAIN g)
Width(g) == Cardinality(DOMAIN g[0])

\* g[row][col] does not raise IndexError (indices are never negative here)
HasIndex(g, row, col) == row \in DOMAIN g /\ col \in DOMAIN g[row]

\* every index the loops `for row in range(rows): for col in range(cols)' use
InBounds(p_rows, p_cols, g) == p_rows <= Height(g) /\ p_cols <= Width(g)

\* mode='wrap' instead: a position outside the input reads the far side
Padded_wrap(input, row, col) ==
    input[row % Height(input)][col % Width(input)]

\* mode='constant', cval=0.0: a position outside the input reads as 0
Padded(input, row, col) ==
    IF HasIndex(input, row, col) THEN input[row][col] ELSE 0

\* one term of the convolution sum: the kernel is flipped, origin at its centre
Tap(input, weights, row, col, a, b) ==
    weights[a][b] * Padded(input, row + 1 - a, col + 1 - b)

\* ndimage.convolve(input, weights, mode='constant', cval=0.0), 3x3 weights
convolve(input, weights) ==
    [row \in DOMAIN input |-> [col \in DOMAIN input[row] |->
          Tap(input, weights, row, col, 0, 0) + Tap(input, weights, row, col, 0, 1)
        + Tap(input, weights, row, col, 0, 2) + Tap(input, weights, row, col, 1, 0)
        + Tap(input, weights, row, col, 1, 1) + Tap(input, weights, row, col, 1, 2)
        + Tap(input, weights, row, col, 2, 0) + Tap(input, weights, row, col, 2, 1)
        + Tap(input, weights, row, col, 2, 2)]]

(***************************************************************************)
(* create_next_grid: the new content of next_grid.                         *)
(***************************************************************************)
\* the first test written as `> 2': a live cell with 3 neighbours dies
next_cell_crowded(neighbors, cell) ==
    IF neighbors < 2 \/ neighbors > 2 THEN 0
    ELSE IF neighbors = 3 /\ cell = 0 THEN 1
    ELSE cell

\* the if / elif / else of one cell
next_cell(neighbors, cell) ==
    IF neighbors < 2 \/ neighbors > 3 THEN 0
    ELSE IF neighbors = 3 /\ cell = 0 THEN 1
    ELSE cell

create_next_grid(p_rows, p_cols, grid, next_grid) ==
    LET counts == convolve(grid, k)
    IN [row \in DOMAIN next_grid |-> [col \in DOMAIN next_grid[row] |->
          IF row < p_rows /\ col < p_cols
          THEN next_cell(counts[row][col], grid[row][col])
          ELSE next_grid[row][col]]]

(***************************************************************************)
(* grid_changing: the row-major scan with its early return.                *)
(***************************************************************************)
\* the comparison of one cell stops the scan: an index is out of range, or
\* the two cells differ
Stops(grid, next_grid, row, col) ==
    \/ ~HasIndex(grid, row, col)
    \/ ~HasIndex(next_grid, row, col)
    \/ ~(grid[row][col] = next_grid[row][col])

RECURSIVE ColScan(_, _, _, _, _)
\* for col in range(cols): the first column of the row at which the scan
\* stops, cols when the row is passed
ColScan(p_cols, grid, next_grid, row, col) ==
    IF col >= p_cols THEN p_cols
    ELSE IF Stops(grid, next_grid, row, col) THEN col
    ELSE ColScan(p_cols, grid, next_grid, row, col + 1)

RECURSIVE RowScan(_, _, _, _, _)
\* for row in range(rows): the index row * cols + col of the first cell at
\* which the scan stops, rows * cols when it runs to the end
RowScan(p_rows, p_cols, grid, next_grid, row) ==
    IF row >= p_rows THEN p_rows * p_cols
    ELSE LET col == ColScan(p_cols, grid, next_grid, row, 0)
         IN IF col < p_cols THEN row * p_cols + col
            ELSE RowScan(p_rows, p_cols, grid, next_grid, row + 1)

FirstStop(p_rows, p_cols, grid, next_grid) ==
    RowScan(p_rows, p_cols, grid, next_grid, 0)

grid_changing_raises(p_rows, p_cols, grid, next_grid) ==
    LET i == FirstStop(p_rows, p_cols, grid, next_grid)
    IN /\ i < p_rows * p_cols
       /\ \/ ~HasIndex(grid, i \div p_cols, i % p_cols)
          \/ ~HasIndex(next_grid, i \div p_cols, i % p_cols)

\* the scan over range(rows - 1): the last row is never compared
grid_changing_short(p_rows, p_cols, grid, next_grid) ==
    LET i == FirstStop(p_rows - 1, p_cols, grid, next_grid)
    IN i < (p_rows - 1) * p_cols

\* the value returned when no IndexError is raised
grid_changing(p_rows, p_cols, grid, next_grid) ==
    LET i == FirstStop(p_rows, p_cols, grid, next_grid)
    IN i < p_rows * p_cols

(***************************************************************************)
(* print_grid: what is on the console after the call (clear_console wipes  *)
(* whatever was there): the header's generation and one glyph per cell.    *)
(***************************************************************************)
print_grid(p_rows, p_cols, grid, generation) ==
    [generation |-> generation,
     lines |-> [row \in 0..(p_rows - 1) |-> [col \in 0..(p_cols - 1) |->
                  IF grid[row][col] = 0 THEN "." ELSE "@"]]]

\* the console right after clear_console()
cleared == [generation |-> 0, lines |-> <<>>]

(***************************************************************************)
(* The image pipeline of run_game.  The picture files are not part of the  *)
(* program; a picture is known by the dark pixels it has after resampling. *)
(***************************************************************************)
Pictures == {"block", "blinker", "single", "blank"}

Dark(picture) ==
    CASE picture = "block" -> {<<1, 1>>, <<1, 2>>, <<2, 1>>, <<2, 2>>}
      [] picture = "blinker" -> {<<2, 1>>, <<2, 2>>, <<2, 3>>}
      [] picture = "single" -> {<<1, 1>>}
      [] picture = "blank" -> {}

\* cv2.resize(image, dsize): dsize is (width, height), the result has
\* dsize[1] rows of dsize[0] pixels (tuples are 1-indexed here)
resize(picture, dsize) ==
    [row \in 0..(dsize[2] - 1) |-> [col \in 0..(dsize[1] - 1) |->
        IF <<row, col>> \in Dark(picture) THEN thresh ELSE thresh + 1]]

\* cv2.threshold(src, thresh, maxval, cv2.THRESH_BINARY)
threshold(src, p_thresh, p_maxval) ==
    [row \in DOMAIN src |-> [col \in DOMAIN src[row] |->
        IF src[row][col] > p_thresh THEN p_maxval ELSE 0]]

\* image_binary // 255, then -image_array + 1 in uint8 arithmetic
image_array(image_binary) ==
    [row \in DOMAIN image_binary |-> [col \in DOMAIN image_binary[row] |->
        (((0 - (image_binary[row][col] \div 255)) % 256) + 1) % 256]]

\* the grids random.randint can produce, cut down to the pictures' shapes
create_initial_grid(p_rows, p_cols) ==
    {[row \in 0..(p_rows - 1) |-> [col \in 0..(p_cols - 1) |->
        IF <<row, col>> \in Dark(picture) THEN 1 ELSE 0]] : picture \in Pictures}

\* get_integer_value(prompt, low, high): the values it can return
get_integer_value(low, high, bound) ==
    {value \in low..bound : ~(value < low \/ value > high)}

\* the successor of a grid, computed into a buffer of its own
NextGen(grid) == create_next_grid(Height(grid), Width(grid), grid, grid)

\* current_generation = next_generation: both names on one buffer
swap_alias(a, b) == <<b, b>>

\* current_generation, next_generation = next_generation, current_generation
swap(a, b) == <<b, a>>

(***************************************************************************)
(* run_game up to the loop (lines 192-232).                                *)
(***************************************************************************)
run_game_setup(p_rows, p_cols, picture, initial) ==
    LET image == resize(picture, <<p_rows, p_cols>>)
        seed == image_array(threshold(image, thresh, maxval))
    IN [pc |-> "for", rows |-> p_rows, cols |-> p_cols,
        buf |-> [ndarray |-> seed, list |-> initial],
        current_generation |-> "ndarray", next_generation |-> "list",
        gen |-> 1, range_it |-> 1, live_neighbors |-> <<>>, ret |-> FALSE,
        out |-> cleared, loop_state |-> "Initializing", succ_of_seed |-> seed]

Init ==
    \E p_rows \in get_integer_value(LowRows, HighRows, MaxRows),
       p_cols \in get_integer_value(LowCols, HighCols, MaxCols),
       picture \in Pictures :
      \E initial \in create_initial_grid(p_rows, p_cols) :
        LET s == run_game_setup(p_rows, p_cols, picture, initial)
        IN /\ pc = s.pc /\ rows = s.rows /\ cols = s.cols /\ buf = s.buf
           /\ current_generation = s.current_generation
           /\ next_generation = s.next_generation
           /\ gen = s.gen /\ range_it = s.range_it
           /\ live_neighbors = s.live_neighbors /\ ret = s.ret
           /\ out = s.out /\ loop_state = s.loop_state
           /\ succ_of_seed = s.succ_of_seed

(***************************************************************************)
(* The loop of run_game (lines 233-239) and its exit (lines 241-249).      *)
(***************************************************************************)
\* for gen in range(1, generations + 1): the next value
ForNext ==
    /\ pc = "for"
    /\ range_it <= generations
    /\ gen' = range_it
    /\ range_it' = range_it + 1
    /\ succ_of_seed' = IF range_it = gen + 1 THEN NextGen(succ_of_seed)
                       ELSE succ_of_seed
    /\ loop_state' = "Running"
    /\ pc' = "check"
    /\ UNCHANGED <<rows, cols, buf, current_generation, next_generation,
                   live_neighbors, ret, out>>

\* a counting loop that leaves its counter one past the last value
ForExhausted_overrun ==
    /\ pc = "for"
    /\ range_it > generations
    /\ gen' = range_it
    /\ loop_state' = "Capped"
    /\ pc' = "final"
    /\ UNCHANGED <<rows, cols, buf, current_generation, next_generation,
                   range_it, live_neighbors, ret, out, succ_of_seed>>

\* the range is exhausted: gen keeps its last value
ForExhausted ==
    /\ pc = "for"
    /\ range_it > generations
    /\ loop_state' = "Capped"
    /\ pc' = "final"
    /\ UNCHANGED <<rows, cols, buf, current_generation, next_generation, gen,
                   range_it, live_neighbors, ret, out, succ_of_seed>>

\* if not grid_changing(...): break
CheckChanging ==
    /\ pc = "check"
    /\ ~grid_changing_raises(rows, cols, buf[current_generation],
                             buf[next_generation])
    /\ ret' = grid_changing(rows, cols, buf[current_generation],
                            buf[next_generation])
    /\ IF ret' THEN pc' = "print" /\ loop_state' = loop_state
               ELSE pc' = "final" /\ loop_state' = "Converged"
    /\ UNCHANGED <<rows, cols, buf, current_generation, next_generation, gen,
                   range_it, live_neighbors, out, succ_of_seed>>

\* grid_changing indexes past the end of a buffer: uncaught IndexError
CheckRaises ==
    /\ pc = "check"
    /\ grid_changing_raises(rows, cols, buf[current_generation],
                            buf[next_generation])
    /\ pc' = "crashed"
    /\ UNCHANGED <<rows, cols, buf, current_generation, next_generation, gen,
                   range_it, live_neighbors, ret, out, loop_state,
                   succ_of_seed>>

\* print_grid(rows, cols, current_generation, gen) in the loop
PrintInLoop ==
    /\ pc = "print"
    /\ InBounds(rows, cols, buf[current_generation])
    /\ out' = print_grid(rows, cols, buf[current_generation], gen)
    /\ pc' = "step"
    /\ UNCHANGED <<rows, cols, buf, current_generation, next_generation, gen,
                   range_it, live_neighbors, ret, loop_state, succ_of_seed>>

\* print_grid indexes past the end of the grid: the console is cleared and
\* the IndexError is raised before anything is printed
PrintRaises ==
    /\ pc = "print"
    /\ ~InBounds(rows, cols, buf[current_generation])
    /\ out' = cleared
    /\ pc' = "crashed"
    /\ UNCHANGED <<rows, cols, buf, current_generation, next_generation, gen,
                   range_it, live_neighbors, ret, loop_state, succ_of_seed>>

\* create_next_grid(rows, cols, current_generation, next_generation); sleep
Step ==
    /\ pc = "step"
    /\ InBounds(rows, cols, buf[current_generation])
    /\ InBounds(rows, cols, buf[next_generation])
    /\ live_neighbors' = convolve(buf[current_generation], k)
    /\ buf' = [buf EXCEPT ![next_generation] =
                 create_next_grid(rows, cols, buf[current_generation],
                                  buf[next_generation])]
    /\ pc' = "swap"
    /\ UNCHANGED <<rows, cols, current_generation, next_generation, gen,
                   range_it, ret, out, loop_state, succ_of_seed>>

Swap ==
    /\ pc = "swap"
    /\ LET swapped == swap(current_generation, next_generation)
       IN /\ current_generation' = swapped[1]
          /\ next_generation' = swapped[2]
    /\ pc' = "for"
    /\ UNCHANGED <<rows, cols, buf, gen, range_it, live_neighbors, ret, out,
                   loop_state, succ_of_seed>>

\* print_grid(rows, cols, current_generation, gen) after the loop
FinalPrint ==
    /\ pc = "final"
    /\ out' = print_grid(rows, cols, buf[current_generation], gen)
    /\ pc' = "prompt"
    /\ UNCHANGED <<rows, cols, buf, current_generation, next_generation, gen,
                   range_it, live_neighbors, ret, loop_state, succ_of_seed>>

\* run_game returns "r": the module-level while loop calls it again
RunAgain ==
    /\ pc = "prompt"
    /\ \E p_rows \in get_integer_value(LowRows, HighRows, MaxRows),
          p_cols \in get_integer_value(LowCols, HighCols, MaxCols),
          picture \in Pictures :
         \E initial \in create_initial_grid(p_rows, p_cols) :
           LET s == run_game_setup(p_rows, p_cols, picture, initial)
           IN /\ pc' = s.pc /\ rows' = s.rows /\ cols' = s.cols
              /\ buf' = s.buf
              /\ current_generation' = s.current_generation
              /\ next_generation' = s.next_generation
              /\ gen' = s.gen /\ range_it' = s.range_it
              /\ live_neighbors' = s.live_neighbors /\ ret' = s.ret
              /\ out' = s.out /\ loop_state' = s.loop_state
              /\ succ_of_seed' = s.succ_of_seed

\* run_game returns anything else: the program ends
Exit ==
    /\ pc = "prompt"
    /\ pc' = "exit"
    /\ UNCHANGED <<rows, cols, buf, current_generation, next_generation, gen,
                   range_it, live_neighbors, ret, out, loop_state,
                   succ_of_seed>>

Next ==
    \/ ForNext \/ ForExhausted \/ CheckChanging \/ CheckRaises
    \/ PrintInLoop \/ PrintRaises \/ Step \/ Swap \/ FinalPrint
    \/ RunAgain \/ Exit

Spec == Init /\ [][Next]_vars

(***************************************************************************)
(* The functions on their own: create_next_grid and grid_changing called   *)
(* on every 0/1 grid of up to MaxFnRows x MaxFnCols and MaxFnCells cells.  *)
(***************************************************************************)
Grids(p_rows, p_cols) == [0..(p_rows - 1) -> [0..(p_cols - 1) -> 0..1]]

\* what the output buffer holds before the call: nothing alive, everything
\* alive, a copy of the input, the input inverted
NextContents(grid) ==
    { [row \in DOMAIN grid |-> [col \in DOMAIN grid[row] |-> 0]],
      [row \in DOMAIN grid |-> [col \in DOMAIN grid[row] |-> 1]],
      grid,
      [row \in DOMAIN grid |-> [col \in DOMAIN grid[row] |-> 1 - grid[row][col]]] }

\* the dimensions of the grids the functions are called on
FnShapes ==
    {d \in (1..MaxFnRows) \X (1..MaxFnCols) : d[1] * d[2] <= MaxFnCells}

InitFn ==
    \E d \in FnShapes :
      \E grid \in Grids(d[1], d[2]) :
        \E next_grid \in NextContents(grid) :
          LET p_rows == d[1]
              p_cols == d[2]
          IN
          /\ pc = "fn" /\ rows = p_rows /\ cols = p_cols
          /\ buf = [ndarray |-> grid, list |-> next_grid]
          /\ current_generation = "ndarray" /\ next_generation = "list"
          /\ gen = 1 /\ range_it = 1 /\ live_neighbors = <<>> /\ ret = FALSE
          /\ out = cleared /\ loop_state = "Initializing"
          /\ succ_of_seed = grid

CallCreateNextGrid ==
    /\ pc = "fn"
    /\ live_neighbors' = convolve(buf[current_generation], k)
    /\ buf' = [buf EXCEPT ![next_generation] =
                 create_next_grid(rows, cols, buf[current_generation],
                                  buf[next_generation])]
    /\ pc' = "fn_next"
    /\ UNCHANGED <<rows, cols, current_generation, next_generation, gen,
                   range_it, ret, out, loop_state, succ_of_seed>>

CallGridChanging ==
    /\ pc \in {"fn", "fn_next"}
    /\ ret' = grid_changing(rows, cols, buf[current_generation],
                            buf[next_generation])
    /\ pc' = "fn_changing"
    /\ UNCHANGED <<rows, cols, buf, current_generation, next_generation, gen,
                   range_it, live_neighbors, out, loop_state, succ_of_seed>>

NextFn == CallCreateNextGrid \/ CallGridChanging

SpecFn == InitFn /\ [][NextFn]_vars

(***************************************************************************)
(* Properties.                                                             *)
(***************************************************************************)
\* the live cells among the Moore neighbours of (row, col) that lie inside
\* the grid, counted one neighbour at a time
MooreCount(grid, row, col) ==
    Cardinality({d \in (-1..1) \X (-1..1) :
                    /\ d # <<0, 0>>
                    /\ (row + d[1]) \in DOMAIN grid
                    /\ (col + d[2]) \in DOMAIN grid[row + d[1]]
                    /\ grid[row + d[1]][col + d[2]] = 1})

\* the grid has exactly rows rows of cols cells
HasShape(grid, p_rows, p_cols) ==
    /\ DOMAIN grid = 0..(p_rows - 1)
    /\ \A row \in DOMAIN grid : DOMAIN grid[row] = 0..(p_cols - 1)

\* the grid is its own successor
FixedPoint(grid) == NextGen(grid) = grid

\* C1: after create_next_grid a cell of next is 1 exactly when its count of
\* live neighbours in G is 3, or is 2 and the cell of G is alive, and is 0
\* otherwise, whatever next held before
C1_NextGridRule ==
    pc = "fn_next" =>
      \A row \in 0..(rows - 1), col \in 0..(cols - 1) :
        LET G == buf[current_generation]
            n == MooreCount(G, row, col)
            alive == (n = 3) \/ (n = 2 /\ G[row][col] = 1)
        IN buf[next_generation][row][col] = IF alive THEN 1 ELSE 0

C1_Witness ==
    /\ pc = "fn_next" /\ rows = 3 /\ cols = 3
    /\ LET G == buf[current_generation]
           N == buf[next_generation]
       IN /\ \E r \in 0..2, c \in 0..2 :
               G[r][c] = 0 /\ MooreCount(G, r, c) = 3 /\ N[r][c] = 1
          /\ \E r \in 0..2, c \in 0..2 :
               G[r][c] = 1 /\ MooreCount(G, r, c) = 2 /\ N[r][c] = 1
          /\ \E r \in 0..2, c \in 0..2 :
               G[r][c] = 1 /\ MooreCount(G, r, c) > 3 /\ N[r][c] = 0
          /\ \E r \in 0..2, c \in 0..2 :
               G[r][c] = 0 /\ MooreCount(G, r, c) = 2 /\ N[r][c] = 0

\* C2: the count create_next_grid uses for a cell is the number of live
\* cells among its Moore neighbours inside the grid (nothing wraps around),
\* at most 3 for a corner cell and at most 5 for another edge cell
C2_NeighbourCount ==
    pc = "fn_next" =>
      \A row \in 0..(rows - 1), col \in 0..(cols - 1) :
        LET rowEdge == row \in {0, rows - 1}
            colEdge == col \in {0, cols - 1}
        IN /\ live_neighbors[row][col]
                = MooreCount(buf[current_generation], row, col)
           /\ (rowEdge /\ colEdge) => live_neighbors[row][col] <= 3
           /\ (rowEdge \/ colEdge) => live_neighbors[row][col] <= 5

C2_Witness ==
    /\ pc = "fn_next" /\ rows = 3 /\ cols = 3
    /\ \A r \in 0..2, c \in 0..2 : buf[current_generation][r][c] = 1
    /\ live_neighbors[0][0] = 3 /\ live_neighbors[0][1] = 5
    /\ live_neighbors[1][1] = 8

C4_StopsOnFixedPoint ==
    (pc \in {"print", "step", "swap"}
       /\ HasShape(buf[current_generation], rows, cols))
      => ~FixedPoint(buf[current_generation])

\* C5: when the loop stops by its break, the current grid is a fixed point
C5_ConvergedIsFixedPoint ==
    loop_state = "Converged" => FixedPoint(buf[current_generation])

\* C6: the first stability check, made while the next buffer still holds
\* what create_initial_grid put there, decides the same whatever that is
C6_InitialNextIrrelevant ==
    (pc = "check" /\ gen = 1 /\ HasShape(buf[current_generation], rows, cols))
      => \A other \in create_initial_grid(rows, cols) :
           grid_changing(rows, cols, buf[current_generation], other)
             = grid_changing(rows, cols, buf[current_generation],
                             buf[next_generation])

\* C7: the counter starts at 1, goes up by exactly 1 from one iteration to
\* the next (after that iteration's step and swap) and by nothing else, and
\* is never above the cap
C7_GenerationCounter ==
    [][/\ 1 <= gen /\ gen <= generations
       /\ 1 <= gen' /\ gen' <= generations
       /\ loop_state = "Initializing" => gen = 1
       /\ (pc = "swap" /\ pc' = "for") => gen' = gen
       /\ (pc = "for" /\ pc' = "check" /\ loop_state = "Running")
            => gen' = gen + 1
       /\ (gen' # gen) => \/ pc = "for" /\ pc' = "check"
                          \/ pc = "prompt" /\ gen' = 1]_vars

C7_Witness ==
    pc = "prompt" /\ loop_state = "Capped" /\ gen = generations
      /\ out.generation = generations

\* C8: the two names always denote different buffers, the step leaves the
\* current grid as it was, and the swap exchanges the names, no cell copied
C8_DoubleBuffer ==
    [][/\ current_generation # next_generation
       /\ pc = "step" => buf'[current_generation] = buf[current_generation]
       /\ pc = "swap" => /\ buf' = buf
                         /\ current_generation' = next_generation
                         /\ next_generation' = current_generation]_vars

C8_Witness ==
    /\ pc = "swap" /\ gen = 4 /\ current_generation = "list"
    /\ buf["list"] # buf["ndarray"]

\* C9: both buffers have exactly rows rows of cols cells, so no index of
\* the loops is out of range
C9_MatchingDimensions ==
    /\ \A b \in DOMAIN buf : HasShape(buf[b], rows, cols)
    /\ pc # "crashed"

\* C10: what is rendered under generation index g is the (g-1)-fold
\* successor of the seed
C10_RenderedIsSuccessor ==
    (out # cleared /\ out.generation = gen)
      => out.lines = print_grid(rows, cols, succ_of_seed, gen).lines

====
